---- MODULE Spec2Model ----
(***************************************************************************)
(* Model of the driver-supervision library.                                *)
(*                                                                         *)
(* Part 1: the Indexer of src/src/indexer.rs, a bounded registry of        *)
(* ordered keys with `pinned` slots, a `waiting` max-heap, one `modified`  *)
(* bit per slot (packed in bytes) and a `len` counter.                     *)
(***************************************************************************)
EXTENDS Integers, Sequences, FiniteSets, TLC

\* ------------------------------------------------------------------ bounds
MaxCap == 3       \* largest capacity handed to Indexer::new
MaxKey == 4       \* keys are 1..MaxKey, ordered as integers
MaxLen == 5       \* a call is taken only while it leaves len <= MaxLen
MaxDup == 2       \* copies of one key the waiting heap may hold (SpecDup)
MaxCand == 3      \* candidate keys handed to open_all are 1..MaxCand
MaxQuota == 2     \* largest admission quota `len` handed to open_all
MaxMKey == 2      \* device keys of the multi supervisor are 1..MaxMKey
MaxT == 2         \* largest target the caller or the callback asks for
MaxChan == 2      \* a worker sends only while the channel holds fewer messages
MaxJoins == 2     \* calls of SupervisorForMultiple::join
MaxHist == 3      \* happenings of SupervisorForSingle::join that are remembered
MaxJoinLen == 2   \* largest `len` handed to the running-flag join of lib.rs

Keys == 1 .. MaxKey

\* ------------------------------------------------------------ Option<T>
None == << >>
Some(x) == << x >>
unwrap(o) == o[1]
is_some(o) == o # None

\* --------------------------------------------------------------- FlagVec
\* struct FlagVec(Vec<u8>): a function from byte index to 0..255
Bit(b, k) == (b \div (2 ^ k)) % 2

with_capacity(capacity) == [b \in 0 .. (((capacity + 7) \div 8) - 1) |-> 0]

\* FlagVec::set: block |= 1 << (i % 8)
set(m, i) ==
    [m EXCEPT ![i \div 8] = IF Bit(@, i % 8) = 1 THEN @ ELSE @ + 2 ^ (i % 8)]

\* FlagVec::clear, the value it returns: (block & mask) != 0
clear_result(m, i) == Bit(m[i \div 8], i % 8) = 1

\* as clear, but without `*block &= !mask`
clear_keeps(m, i) == m

\* FlagVec::clear, the vector it leaves: block &= !mask
clear(m, i) ==
    [m EXCEPT ![i \div 8] = IF Bit(@, i % 8) = 1 THEN @ - 2 ^ (i % 8) ELSE @]

\* the flag of slot i as the tests read it (vec_modified)
vec_modified(m, i) == Bit(m[i \div 8], i % 8) = 1

\* ---------------------------------------------------- BinaryHeap<T> waiting
\* a max-heap is observed only through push, pop (the maximum) and into_iter:
\* it is the multiset of its elements, here key |-> number of copies
EmptyHeap == [k \in Keys |-> 0]
heap_is_empty(w) == \A k \in Keys : w[k] = 0
heap_push(w, t) == [w EXCEPT ![t] = @ + 1]
heap_peek(w) == CHOOSE k \in Keys : w[k] > 0 /\ \A j \in Keys : w[j] > 0 => j <= k
heap_pop(w) == [w EXCEPT ![heap_peek(w)] = @ - 1]
\* into_iter().filter(|it| t != it).for_each(push): every copy of t is gone
heap_filter(w, t) == [w EXCEPT ![t] = 0]
heap_elems(w) == {k \in Keys : w[k] > 0}

\* ---------------------------------------------------------------- Indexer
\* an Indexer value: [pinned, modified, waiting, len]
\* pinned is a function 0..capacity-1 -> Option<Key>

Cap(s) == Cardinality(DOMAIN s.pinned)

\* Indexer::new
new(capacity) ==
    [pinned   |-> [i \in 0 .. capacity - 1 |-> None],
     modified |-> with_capacity(capacity),
     waiting  |-> EmptyHeap,
     len      |-> 0]

\* Indexer::is_full
is_full(s) == s.len = Cap(s)

swap(p, a, b) == [p EXCEPT ![a] = p[b], ![b] = p[a]]

\* Indexer::remove_at
remove_at(s, i) ==
    [s EXCEPT !.pinned[i] = None,
              !.modified = clear(@, i),
              !.len = @ - 1]

\* Indexer::put_somewhere_forward, the loop `for i in (0..i).rev()`;
\* t is the key carried toward index 0; it is dropped when no hole is met
RECURSIVE psf_loop(_, _, _)
psf_loop(s, j, t) ==
    IF j < 0 THEN s
    ELSE LET m == set(s.modified, j) IN
         IF is_some(s.pinned[j])
         THEN psf_loop([s EXCEPT !.modified = m, !.pinned[j] = Some(t)],
                       j - 1, unwrap(s.pinned[j]))
         ELSE [s EXCEPT !.modified = m, !.pinned[j] = Some(t)]

put_somewhere_forward(s, i, t) ==
    psf_loop([s EXCEPT !.pinned[i] = Some(t),
                       !.modified = clear(@, i),
                       !.len = @ + 1],
             i - 1, unwrap(s.pinned[i]))

\* Indexer::put_forward, the loop `for i in range`
RECURSIVE pf_loop(_, _, _)
pf_loop(s, j, end) ==
    IF j >= end THEN s
    ELSE pf_loop([s EXCEPT !.pinned = swap(@, j, j + 1),
                           !.modified = set(@, j)],
                 j + 1, end)

put_forward(s, start, end, t) ==
    pf_loop([s EXCEPT !.len = @ + 1,
                      !.pinned[start] = Some(t),
                      !.modified = clear(@, end)],
            start, end)

\* Indexer::put_backward, the loop `for i in range.rev()`
RECURSIVE pb_loop(_, _, _)
pb_loop(s, j, start) ==
    IF j < start THEN s
    ELSE pb_loop([s EXCEPT !.pinned = swap(@, j, j + 1),
                           !.modified = set(@, j + 1)],
                 j - 1, start)

put_backward(s, start, end, t) ==
    pb_loop([s EXCEPT !.len = @ + 1,
                      !.pinned[end] = Some(t),
                      !.modified = clear(@, start)],
            end - 1, start)

\* The result of a call: the Indexer it leaves, the value it returns and how
\* it ended.  fault:
\*   "none"      returned normally
\*   "duplicate" panic!("不应该有两个 key 相同的驱动设备")
\*   "unwrap"    Option::unwrap on None (get_value)
\*   "index"     an index left 0..capacity-1 by `- 1` at 0: a debug build
\*               panics on the subtraction, a release build wraps and reads
\*               through get_unchecked out of bounds (see Outcomes)
Result(s, ret, fault) == [s |-> s, ret |-> ret, fault |-> fault]

\* Indexer::add, lines 59-73: scan from the tail for the last hole
RECURSIVE add_scan(_, _, _)
add_scan(s, t, i) ==
    IF i < 0 THEN Result(s, None, "index")
    ELSE IF is_some(s.pinned[i])
    THEN LET it == unwrap(s.pinned[i]) IN
         IF t < it THEN [kind |-> "placed", i |-> i]
         ELSE IF t > it THEN add_scan(s, t, i - 1)
         ELSE Result(s, None, "duplicate")
    ELSE [kind |-> "hole", i |-> i]

\* Indexer::add, lines 76-90: from the hole toward index 0, find where t goes
\* and the nearest hole at or after that place
RECURSIVE add_place(_, _, _, _)
add_place(s, t, i, hole) ==
    IF i > 0
    THEN IF is_some(s.pinned[i - 1])
         THEN LET item == unwrap(s.pinned[i - 1]) IN
              IF t < item THEN [i |-> i, hole |-> hole, dup |-> FALSE]
              ELSE IF t > item THEN add_place(s, t, i - 1, hole)
              ELSE [i |-> i - 1, hole |-> hole, dup |-> TRUE]
         ELSE add_place(s, t, i - 1, i - 1)
    ELSE [i |-> i, hole |-> hole, dup |-> FALSE]

\* as add_from_hole, but returning the index of the hole instead of the index
\* the key ends at
add_from_hole_hole(s, t, hole0) ==
    LET p == add_place(s, t, hole0, hole0) IN
    IF p.dup THEN Result(s, None, "duplicate")
    ELSE Result(put_backward(s, p.i, p.hole, t), Some(p.hole), "none")

\* Indexer::add, lines 75-93
add_from_hole(s, t, hole0) ==
    LET p == add_place(s, t, hole0, hole0) IN
    IF p.dup THEN Result(s, None, "duplicate")
    ELSE Result(put_backward(s, p.i, p.hole, t), Some(p.i), "none")

\* Indexer::add
add(s, t) ==
    LET tail == Cap(s) - 1 IN
    IF tail < 0 THEN Result(s, None, "index")
    ELSE IF is_full(s)
    THEN IF ~is_some(s.pinned[tail]) THEN Result(s, None, "unwrap")
         ELSE LET last == unwrap(s.pinned[tail]) IN
              IF t < last
              THEN Result([s EXCEPT !.waiting = heap_push(@, t)], None, "none")
              ELSE IF t > last
              THEN add_from_hole([s EXCEPT !.pinned[tail] = None,
                                           !.waiting = heap_push(@, last)],
                                 t, tail)
              ELSE Result(s, None, "duplicate")
    ELSE LET r == add_scan(s, t, tail) IN
         IF "fault" \in DOMAIN r THEN r
         ELSE IF r.kind = "placed"
         THEN Result(put_somewhere_forward(s, r.i, t), Some(r.i), "none")
         ELSE add_from_hole(s, t, r.i)

\* Indexer::remove, the loop `for i in (0..=tail).rev()`
RECURSIVE remove_scan(_, _, _)
remove_scan(s, t, i) ==
    IF i < 0 THEN Result(s, None, "none")
    ELSE IF is_some(s.pinned[i])
    THEN LET item == unwrap(s.pinned[i]) IN
         IF t = item
         THEN IF heap_is_empty(s.waiting)
              THEN Result(remove_at(s, i), Some(i), "none")
              ELSE Result(put_forward([s EXCEPT !.waiting = heap_pop(@)],
                                      i, Cap(s) - 1, heap_peek(s.waiting)),
                          None, "none")
         ELSE IF t < item
         THEN Result([s EXCEPT !.waiting = heap_filter(@, t)], None, "none")
         ELSE remove_scan(s, t, i - 1)
    ELSE remove_scan(s, t, i - 1)

\* Indexer::remove
remove(s, t) ==
    LET tail == Cap(s) - 1 IN
    IF tail < 0 THEN Result(s, None, "index")
    ELSE remove_scan(s, t, tail)

\* Indexer::find
RECURSIVE find_scan(_, _, _)
find_scan(p, t, i) ==
    IF i < 0 THEN None
    ELSE IF is_some(p[i])
    THEN IF t < unwrap(p[i]) THEN None
         ELSE IF t = unwrap(p[i]) THEN Some(i)
         ELSE find_scan(p, t, i - 1)
    ELSE find_scan(p, t, i - 1)

find(s, t) == find_scan(s.pinned, t, Cap(s) - 1)

\* Indexer::update
update(s, i) ==
    Result([s EXCEPT !.modified = clear(@, i)], clear_result(s.modified, i), "none")

\* An index that left the vector: the debug build panics ("overflow"), the
\* release build wraps the index and reads out of bounds ("ub")
Outcomes(fault) == IF fault = "index" THEN {"overflow", "ub"} ELSE {fault}

\* ------------------------------------------------------------------ state
VARIABLES
    capacity,   \* the argument of Indexer::new
    state,      \* "unborn" before Indexer::new, then "none" while every call
                \* returned, else the fault that ended the last call
    pinned, modified, waiting, len,    \* the fields of the Indexer
    call,       \* the last call: [op, arg, ret, flag]; ret is the Option<usize>
                \* of add and remove, flag the bool of update
    live,       \* the keys the caller added and has not removed since
    slot        \* per key, the index the last add(k) returned to the caller,
                \* forgotten when the caller removes k

\* Driver::open_all (src/src/lib.rs)
VARIABLES
    pkind,      \* per candidate key, how its driver behaves (the input)
    plen,       \* the argument `len`
    ppc,        \* where the calling thread is
    pdrivers,   \* `drivers`: the keys whose Driver::new returned Some, in order
    pidx,       \* position of the calling thread in `drivers` / in the handles
    strong,     \* Arc::strong_count(&counter)
    pworker,    \* per candidate key, the state of its probe thread
    expired,    \* Instant::now() >= deadline
    psaw,       \* per candidate key: its inspector was called with an event
                \* (not a tick) before the deadline
    presult     \* the vector open_all returns

\* JoinContextForMultiple (src/src/supervisor_multiple/context.rs)
VARIABLES
    mpc,        \* where the dispatcher (the thread inside join) is
    target_len, \* JoinContextForMultiple::target_len
    handles,    \* JoinContextForMultiple::handles: the keys that have an entry
    chan,       \* the event channel: messages sent and not yet received
    rx,         \* the Receiver of the event channel exists
    next_try,   \* JoinContextForMultiple::next_try, compared with
                \* Instant::now(): 1 (ahead), 0 (reached) or -1 (passed)
    saved,      \* SupervisorForMultiple.0: the saved-context list (keys of the
                \* drivers it holds)
    mnew,       \* drivers of the last probe the Connected loop has not reached
    mjoining,   \* shutdown: the key whose JoinHandle is being joined (0: none)
    workers,    \* per key, the thread spawned last for it: "free" (none, or
                \* nothing of it is left), "running", "some" (ended with
                \* Some((k, d))) or "none" (ended with None)
    joins,      \* calls of join so far
    mon,        \* what has happened at least once: a message delivered
                \* before an older one of its worker (disorder), a probe
                \* started before next_try while the target was positive
                \* (early), a first Event of the scenario below delivered
                \* before T0 Connected and T0 handles (short)
    zeroed,     \* the callback has returned 0 during this join
    announced,  \* per key: Connected(k) was delivered, no Disconnected(k) since
    scen        \* until the first Event: this join started with an empty
                \* saved-context, every callback returned the initial target T0
                \* and the first probe returned T0 drivers (on); Connected
                \* delivered so far (nconn); handles has reached T0 (reached)

\* SupervisorForSingle (src/src/supervisor_single.rs)
VARIABLES
    spc,        \* where the thread inside SupervisorForSingle::join is
    sctx,       \* SupervisorForSingle.0: the single-slot context (Option)
    sdrv,       \* the local `driver` that join took out of the context (Option)
    shist       \* the last callbacks [kind, ret] and probes [kind, quota]

\* SupervisorForMultiple::join with the running flag (src/src/lib.rs)
VARIABLES
    lpc,        \* where the thread inside join is
    llen,       \* the argument `len`; the event channel holds 2 * len messages
    _loop,      \* the local `_loop`
    running,    \* the AtomicBool `running`
    lhandles,   \* the local `handles`: the keys that have a JoinHandle
    lchan,      \* the bounded event channel: messages sent and not yet received
    lcontext,   \* self.context(): the keys of the drivers it holds
    lnew,       \* drivers of the last open_all the Connected loop has not reached
    lworkers,   \* per key, the thread spawned last for it: "free", "running"
                \* (inside d.join, between two events), "send" (in the send of an
                \* Event), "sent" (the send returned, `running` not yet loaded),
                \* "breaking" (d.join returned false, in the send of
                \* Disconnected), "some" or "none" (ended with that value)
    ljoining    \* the key whose JoinHandle is being joined (0: none)

ixvars == <<capacity, state, pinned, modified, waiting, len, call, live, slot>>
prvars == <<pkind, plen, ppc, pdrivers, pidx, strong, pworker, expired, psaw, presult>>
mvars == <<mpc, target_len, handles, chan, rx, next_try, saved, mnew,
           mjoining, workers, joins, mon, zeroed, announced, scen>>
svars == <<spc, sctx, sdrv, shist>>
lvars == <<lpc, llen, _loop, running, lhandles, lchan, lcontext, lnew,
           lworkers, ljoining>>
vars == <<ixvars, prvars, mvars, svars, lvars>>

MKeys == 1 .. MaxMKey

NoneYet == [disorder |-> FALSE, early |-> FALSE, short |-> FALSE]
ScenOff == [on |-> FALSE, T0 |-> 0, probed |-> FALSE, nconn |-> 0,
            reached |-> FALSE]

\* SupervisorForSingle::default(), join not called
LibIdle ==
    /\ lpc = "idle"
    /\ llen = 0
    /\ _loop = FALSE
    /\ running = FALSE
    /\ lhandles = {}
    /\ lchan = << >>
    /\ lcontext = {}
    /\ lnew = << >>
    /\ lworkers = [k \in MKeys |-> "free"]
    /\ ljoining = 0

SingleIdle ==
    /\ spc = "idle"
    /\ sctx = << >>
    /\ sdrv = << >>
    /\ shist = << >>

\* join has not been called
MultiIdle ==
    /\ mpc = "idle"
    /\ target_len = 0
    /\ handles = {}
    /\ chan = << >>
    /\ rx = FALSE
    /\ next_try = 0
    /\ saved = << >>
    /\ mnew = << >>
    /\ mjoining = 0
    /\ workers = [k \in MKeys |-> "free"]
    /\ joins = 0
    /\ mon = NoneYet
    /\ zeroed = FALSE
    /\ announced = [k \in MKeys |-> FALSE]
    /\ scen = ScenOff

PCands == 1 .. MaxCand

\* open_all is not running
ProbeIdle ==
    /\ pkind = [k \in PCands |-> "absent"]
    /\ plen = 0
    /\ ppc = "idle"
    /\ pdrivers = << >>
    /\ pidx = 0
    /\ strong = 0
    /\ pworker = [k \in PCands |-> "unborn"]
    /\ expired = FALSE
    /\ psaw = [k \in PCands |-> FALSE]
    /\ presult = << >>

IndexerIdle ==
    /\ capacity = 0
    /\ state = "unborn"
    /\ pinned = << >>
    /\ modified = << >>
    /\ waiting = EmptyHeap
    /\ len = 0
    /\ call = [op |-> "none", arg |-> 0, ret |-> None, flag |-> FALSE]
    /\ live = {}
    /\ slot = [k \in Keys |-> None]

self == [pinned |-> pinned, modified |-> modified, waiting |-> waiting, len |-> len]

Store(s) ==
    /\ pinned' = s.pinned
    /\ modified' = s.modified
    /\ waiting' = s.waiting
    /\ len' = s.len

Unborn ==
    /\ state = "unborn"
    /\ pinned = << >>
    /\ modified = << >>
    /\ waiting = EmptyHeap
    /\ len = 0
    /\ call = [op |-> "none", arg |-> 0, ret |-> None, flag |-> FALSE]
    /\ live = {}
    /\ slot = [k \in Keys |-> None]

Init == capacity \in 2 .. MaxCap /\ Unborn /\ ProbeIdle /\ MultiIdle /\ SingleIdle /\ LibIdle

InitAny == capacity \in 0 .. MaxCap /\ Unborn /\ ProbeIdle /\ MultiIdle /\ SingleIdle /\ LibIdle

New ==
    /\ state = "unborn"
    /\ Store(new(capacity))
    /\ state' = "none"
    /\ call' = [op |-> "new", arg |-> capacity, ret |-> None, flag |-> FALSE]
    /\ UNCHANGED <<capacity, live, slot>>
    /\ UNCHANGED <<prvars, mvars, svars, lvars>>

Apply(op, k, r) ==
    /\ r.s.len <= MaxLen
    /\ Store(r.s)
    /\ state' \in Outcomes(r.fault)
    /\ call' = IF op = "update"
               THEN [op |-> op, arg |-> k, ret |-> None, flag |-> r.ret]
               ELSE [op |-> op, arg |-> k, ret |-> r.ret, flag |-> FALSE]
    /\ UNCHANGED capacity
    /\ UNCHANGED <<prvars, mvars, svars, lvars>>

\* the caller adds a key it does not hold
Add(k) ==
    /\ state = "none"
    /\ k \notin live
    /\ Apply("add", k, add(self, k))
    /\ live' = live \cup {k}
    /\ slot' = [slot EXCEPT ![k] = call'.ret]

\* the caller adds a key it already holds
AddDup(k) ==
    /\ state = "none"
    /\ k \in live
    /\ waiting[k] < MaxDup
    /\ Apply("add", k, add(self, k))
    /\ live' = live
    /\ slot' = [slot EXCEPT ![k] = call'.ret]

Remove(k) ==
    /\ state = "none"
    /\ Apply("remove", k, remove(self, k))
    /\ live' = live \ {k}
    /\ slot' = [slot EXCEPT ![k] = None]

Update(i) ==
    /\ state = "none"
    /\ i \in DOMAIN pinned
    /\ Apply("update", i, update(self, i))
    /\ UNCHANGED <<live, slot>>

Next ==
    \/ New
    \/ \E k \in Keys : Add(k)
    \/ \E k \in Keys : Remove(k)
    \/ \E i \in 0 .. MaxCap - 1 : Update(i)

Spec == Init /\ [][Next]_vars

NextDup ==
    \/ New
    \/ \E k \in Keys : Add(k)
    \/ \E k \in Keys : AddDup(k)
    \/ \E k \in Keys : Remove(k)
    \/ \E i \in 0 .. MaxCap - 1 : Update(i)

SpecDup == Init /\ [][NextDup]_vars

SpecNew == InitAny /\ [][Next]_vars

\* ---------------------------------------------------------- vocabulary
Slots == DOMAIN pinned
Occupied == {i \in Slots : is_some(pinned[i])}
PinnedKeys == {unwrap(pinned[i]) : i \in Occupied}
WaitingKeys == heap_elems(waiting)

Flag(i) == vec_modified(modified, i)
FlagAfter(i) == vec_modified(modified', i)
Max(S) == CHOOSE x \in S : \A y \in S : y <= x
\* the step is a call of op on a usable Indexer
Called(op) == state = "none" /\ call'.op = op /\ vars' # vars

\* ------------------------------------------------------------------ claims

\* C1: after any add/remove sequence without duplicate live keys, the
\* occupied pinned slots, read by ascending index, hold strictly descending
\* keys
C1_PinnedDescending ==
    \A i, j \in Occupied : i < j => unwrap(pinned[i]) > unwrap(pinned[j])

\* C2: len() is the number of occupied pinned slots, and is_full() holds
\* exactly when every pinned slot is occupied
C2_LenCountsOccupied ==
    state # "unborn" =>
        /\ len = Cardinality(Occupied)
        /\ is_full(self) <=> (Occupied = Slots)

\* C3: pinned and waiting together hold exactly the keys added and not yet
\* removed, each exactly once
C3_ExactlyLiveKeys ==
    state \in {"unborn", "none"} =>
        /\ PinnedKeys \cup WaitingKeys = live
        /\ PinnedKeys \cap WaitingKeys = {}
        /\ Cardinality(PinnedKeys) = Cardinality(Occupied)
        /\ \A k \in Keys : waiting[k] <= 1

\* C4: every waiting key is strictly below every pinned key, and waiting is
\* non-empty only while every pinned slot is occupied
C4_PinnedAreHighest ==
    /\ \A w \in WaitingKeys : \A p \in PinnedKeys : w < p
    /\ WaitingKeys # {} => Occupied = Slots

\* C5 as stated: as long as the caller has not removed k, find(k) is the index
\* that add(k) returned
C5_SlotStable ==
    state = "none" =>
        \A k \in Keys : is_some(slot[k]) => find(self, k) = slot[k]

\* C5 as amended: the index add(k) returns is the slot of k when the call
\* returns: slot i holds k and find(k) = Some(i) in the state add leaves
C5_AddReturnsSlot ==
    [][(Called("add") /\ is_some(call'.ret) /\ state' = "none") =>
          /\ pinned'[unwrap(call'.ret)] = Some(call'.arg)
          /\ find([pinned |-> pinned'], call'.arg) = call'.ret]_vars

\* an add returned an index while a key added earlier no longer sits at the
\* index its own add returned
C5_Witness ==
    /\ state = "none" /\ call.op = "add" /\ is_some(call.ret)
    /\ pinned[unwrap(call.ret)] = Some(call.arg)
    /\ \E k \in Keys \ {call.arg} :
          is_some(slot[k]) /\ k \in PinnedKeys /\ find(self, k) # slot[k]

\* C6: find(k) = Some(i) exactly when slot i holds k, and find(k) = None for
\* a key that is not pinned
C6_FindIffOccupied ==
    state = "none" =>
        \A k \in Keys :
            /\ \A i \in Slots : (find(self, k) = Some(i)) <=> (pinned[i] = Some(k))
            /\ k \notin PinnedKeys => find(self, k) = None

\* C7: remove(k) of a pinned k while waiting is non-empty leaves len
\* unchanged, returns None, moves the former maximum of waiting into pinned,
\* and keeps every other pinned key pinned
C7_RemoveRefills ==
    [][(Called("remove") /\ call'.arg \in PinnedKeys /\ WaitingKeys # {}) =>
          /\ state' = "none"
          /\ len' = len
          /\ call'.ret = None
          /\ Max(WaitingKeys) \in PinnedKeys'
          /\ waiting'[Max(WaitingKeys)] = waiting[Max(WaitingKeys)] - 1
          /\ PinnedKeys \ {call'.arg} \subseteq PinnedKeys']_vars

C9_DuplicatePanics ==
    [][(Called("add") /\ call'.arg \in PinnedKeys \cup WaitingKeys) =>
          /\ state' = "duplicate"
          /\ waiting'[call'.arg] <= waiting[call'.arg]
          /\ \A i \in Slots : pinned'[i] = Some(call'.arg) => pinned[i] = Some(call'.arg)]_vars

\* C10: Indexer::new(C) with C < 2 fails with an invalid-argument error and
\* leaves no usable Indexer
C10_NewRejectsSmallCapacity ==
    capacity < 2 => state \in {"unborn", "invalid-argument"}

\* ===================================================================
\* Part 2: Driver::open_all (src/src/lib.rs, lines 28-83), the open-probe.
\* The pacemaker thread (lines 41-56) only triggers the drivers; what a driver
\* does in its join is the input pkind:
\*   "absent"   Driver::new returned None
\*   "healthy"  join keeps calling the inspector with Some(event)
\*   "ticker"   join keeps calling the inspector with None ("no event yet")
\*   "broken"   join may call the inspector and at some point returns false
\* ===================================================================
Kinds == {"absent", "healthy", "ticker", "broken"}

Min(a, b) == IF a <= b THEN a ELSE b

\* lines 34-39: keys.filter_map(Self::new), in the order of keys
RECURSIVE constructed(_, _)
constructed(kinds, k) ==
    IF k > MaxCand THEN << >>
    ELSE (IF kinds[k] = "absent" THEN << >> ELSE << k >>) \o constructed(kinds, k + 1)

\* line 69: the inspector handed to join
inspector(count, quota, late) == count > quota /\ ~late

\* what a driver of this kind may hand to its inspector
Emits(kind) ==
    CASE kind = "healthy" -> {"event"}
      [] kind = "ticker"  -> {"tick"}
      [] kind = "broken"  -> {"event", "tick"}
      [] OTHER            -> {}

ProbeInit ==
    /\ pkind \in [PCands -> Kinds]
    /\ plen \in 1 .. MaxQuota
    /\ ppc = "enter"
    /\ pdrivers = << >>
    /\ pidx = 0
    /\ strong = 0
    /\ pworker = [k \in PCands |-> "unborn"]
    /\ expired = FALSE
    /\ psaw = [k \in PCands |-> FALSE]
    /\ presult = << >>

\* lines 32-39 and 59-60: build `drivers`, take the deadline, Arc::new(())
PConstruct ==
    /\ ppc = "enter"
    /\ pdrivers' = constructed(pkind, 1)
    /\ strong' = 1
    /\ ppc' = "spawn"
    /\ pidx' = 1
    /\ UNCHANGED <<pkind, plen, pworker, expired, psaw, presult>>
    /\ UNCHANGED <<ixvars, mvars, svars, lvars>>

\* lines 63-77: counter.clone() and thread::spawn for the next driver
PSpawn ==
    /\ ppc = "spawn"
    /\ pidx <= Len(pdrivers)
    /\ strong' = strong + 1
    /\ pworker' = [pworker EXCEPT ![pdrivers[pidx]] = "running"]
    /\ pidx' = pidx + 1
    /\ UNCHANGED <<pkind, plen, ppc, pdrivers, expired, psaw, presult>>
    /\ UNCHANGED <<ixvars, mvars, svars, lvars>>

\* line 79: the block ends, the caller's `counter` is dropped
PDropCounter ==
    /\ ppc = "spawn"
    /\ pidx > Len(pdrivers)
    /\ strong' = strong - 1
    /\ ppc' = "collect"
    /\ pidx' = 1
    /\ UNCHANGED <<pkind, plen, pdrivers, pworker, expired, psaw, presult>>
    /\ UNCHANGED <<ixvars, mvars, svars, lvars>>

\* lines 68-70: the driver of k calls the inspector; when the inspector says
\* false the join returns true and the thread is about to return Some(o)
PInspect(k, ev) ==
    /\ pworker[k] = "running"
    /\ ev \in Emits(pkind[k])
    /\ psaw' = [psaw EXCEPT ![k] = @ \/ (ev = "event" /\ ~expired)]
    /\ pworker' = [pworker EXCEPT ![k] =
                      IF inspector(strong, plen, expired) THEN "running" ELSE "passed"]
    /\ UNCHANGED <<pkind, plen, ppc, pdrivers, pidx, strong, expired, presult>>
    /\ UNCHANGED <<ixvars, mvars, svars, lvars>>

\* lines 68-74: the join of a broken driver returns false: the thread is about
\* to return None
PBreak(k) ==
    /\ pworker[k] = "running"
    /\ pkind[k] = "broken"
    /\ pworker' = [pworker EXCEPT ![k] = "failed"]
    /\ UNCHANGED <<pkind, plen, ppc, pdrivers, pidx, strong, expired, psaw, presult>>
    /\ UNCHANGED <<ixvars, mvars, svars, lvars>>

\* line 75: the thread closure ends, its clone of `counter` is dropped
PExit(k) ==
    /\ pworker[k] \in {"passed", "failed"}
    /\ strong' = strong - 1
    /\ pworker' = [pworker EXCEPT ![k] = IF @ = "passed" THEN "some" ELSE "none"]
    /\ UNCHANGED <<pkind, plen, ppc, pdrivers, pidx, expired, psaw, presult>>
    /\ UNCHANGED <<ixvars, mvars, svars, lvars>>

\* the clock passes the deadline taken at line 59
PExpire ==
    /\ ppc \in {"spawn", "collect"}
    /\ ~expired
    /\ expired' = TRUE
    /\ UNCHANGED <<pkind, plen, ppc, pdrivers, pidx, strong, pworker, psaw, presult>>
    /\ UNCHANGED <<ixvars, mvars, svars, lvars>>

\* lines 80-82: join the next handle and keep the driver it returned
PCollect ==
    /\ ppc = "collect"
    /\ pidx <= Len(pdrivers)
    /\ pworker[pdrivers[pidx]] \in {"some", "none"}
    /\ presult' = IF pworker[pdrivers[pidx]] = "some"
                  THEN Append(presult, pdrivers[pidx]) ELSE presult
    /\ pidx' = pidx + 1
    /\ UNCHANGED <<pkind, plen, ppc, pdrivers, strong, pworker, expired, psaw>>
    /\ UNCHANGED <<ixvars, mvars, svars, lvars>>

\* line 82: collect() is complete, open_all returns
PReturn ==
    /\ ppc = "collect"
    /\ pidx > Len(pdrivers)
    /\ ppc' = "done"
    /\ UNCHANGED <<pkind, plen, pdrivers, pidx, strong, pworker, expired, psaw, presult>>
    /\ UNCHANGED <<ixvars, mvars, svars, lvars>>

NextProbe ==
    \/ PConstruct
    \/ PSpawn
    \/ PDropCounter
    \/ \E k \in PCands : \E ev \in {"event", "tick"} : PInspect(k, ev)
    \/ \E k \in PCands : PBreak(k)
    \/ \E k \in PCands : PExit(k)
    \/ PExpire
    \/ PCollect
    \/ PReturn

InitProbe == IndexerIdle /\ ProbeInit /\ MultiIdle /\ SingleIdle /\ LibIdle

SpecProbe == InitProbe /\ [][NextProbe]_vars

Range(f) == {f[i] : i \in DOMAIN f}

\* C11: when every constructed candidate is healthy and delivered events
\* before the deadline, open_all returns exactly min(N, len) drivers, never
\* more than len
C11_ProbeReturnsMin ==
    (/\ ppc = "done"
     /\ \A k \in PCands : pkind[k] \in {"absent", "healthy"}
     /\ \A k \in Range(pdrivers) : psaw[k]) =>
        Len(presult) = Min(Len(pdrivers), plen)

\* C12: every driver open_all returns had its inspector called with a valid
\* event before the deadline, so with fewer accepting candidates than len
\* exactly the accepting ones are returned
C12_ReturnedSawEvent ==
    ppc = "done" =>
        /\ \A k \in Range(presult) : psaw[k]
        /\ Cardinality({k \in PCands : psaw[k]}) < plen =>
              Range(presult) = {k \in PCands : psaw[k] /\ pkind[k] # "broken"}


\* ---------------------------------------------------------------------------
\* Part 3: JoinContextForMultiple (src/src/supervisor_multiple/context.rs)
\* ---------------------------------------------------------------------------
\* The dispatcher is the thread that called join; every driver in `handles`
\* runs in a worker thread of its own (spawn, lines 151-181).  A driver holds
\* its device alone, so at most one thread per key holds a driver, and an entry
\* of `handles` refers to the thread spawned last for its key.  The command
\* channel of a worker is left out: the worker only drains it (lines 169-171) and
\* neither side's control flow depends on it.  A panic of the dispatcher ends
\* the program.

\* keys whose device is held by a driver object that still exists: a running
\* worker's, a finished worker's result waiting in its JoinHandle, the
\* saved-context list's, the probe result's
HeldKeys ==
    {k \in MKeys : workers[k] \in {"running", "some"}}
        \cup Range(saved) \cup Range(mnew)

\* D::open_some(quota): up to `quota` drivers, each on a device no other driver
\* holds, in the order of D::keys(), possibly none
open_some(quota) ==
    {opened \in UNION {[1 .. n -> MKeys \ HeldKeys] : n \in 0 .. MaxMKey} :
        /\ Len(opened) <= quota
        /\ \A i, j \in 1 .. Len(opened) : i < j => opened[i] < opened[j]}

\* line 109: next_try.checked_duration_since(Instant::now()) is Some
wait_never(nt) == FALSE
wait(nt) == nt >= 0

\* lines 110-129: what one turn of receive_from_child does
receive_mode(nh, w, t) ==
    IF nh = 0 THEN (IF w THEN "sleep" ELSE "return")
    ELSE IF w \/ nh >= t THEN "recv"
    ELSE "try_recv"

\* the channel is first in, first out: recv and try_recv take the oldest message
recv_last(ch) == Len(ch)
recv_index(ch) == 1

\* the message at i was sent after another one of the same key that is still
\* in the channel
overtakes(ch, i) == \E j \in 1 .. Len(ch) : j < i /\ ch[j].key = ch[i].key

RemoveAt(ch, i) == SubSeq(ch, 1, i - 1) \o SubSeq(ch, i + 1, Len(ch))

\* a thread that has ended leaves nothing behind once no JoinHandle refers to
\* it (its result is dropped with it)
gc(ws, hs) ==
    [k \in MKeys |->
        IF ws[k] \in {"some", "none"} /\ k \notin hs THEN "free" ELSE ws[k]]

\* the callback `f` is invoked with an event and returns `ret`
Deliver(kind, k, ret) ==
    /\ zeroed' = (zeroed \/ ret = 0)
    /\ announced' = IF kind = "Connected" THEN [announced EXCEPT ![k] = TRUE]
                    ELSE IF kind = "Disconnected" THEN [announced EXCEPT ![k] = FALSE]
                    ELSE announced
NoDeliver == UNCHANGED <<zeroed, announced>>

\* the scenario is followed up to its first Event; a driver that breaks before
\* that was not a healthy one
scen_cb(sc, kind, ret) ==
    IF ~sc.on THEN sc
    ELSE IF ret # sc.T0 \/ kind \in {"Disconnected", "Event"} THEN ScenOff
    ELSE [sc EXCEPT !.nconn = IF kind = "Connected" THEN @ + 1 ELSE @]

\* line 63: while self.target_len > 0 { receive_from_child ... }, and the
\* shutdown after it
run_loop(t) == IF t > 0 THEN "recv" ELSE "shutdown"

\* SupervisorForMultiple::join(len, f) -> JoinContextForMultiple::new, lines
\* 39-57: every saved driver gets a worker, no Connected is delivered for it
Enter(n) ==
    /\ workers' = [k \in MKeys |-> IF k \in Range(saved) THEN "running" ELSE "free"]
    /\ handles' = Range(saved)
    /\ saved' = << >>
    /\ chan' = << >>
    /\ rx' = TRUE
    /\ target_len' = n
    /\ next_try' = 0
    /\ joins' = joins + 1
    /\ mpc' = run_loop(n)
    /\ zeroed' = FALSE
    /\ scen' = IF saved = << >>
               THEN [on |-> TRUE, T0 |-> n, probed |-> FALSE, nconn |-> 0,
                     reached |-> FALSE]
               ELSE ScenOff
    /\ UNCHANGED <<mnew, mjoining, mon, announced>>
    /\ UNCHANGED <<ixvars, prvars, svars, lvars>>

\* the first call of join
MJoin(n) ==
    /\ mpc = "idle"
    /\ Enter(n)

\* join is called again after it returned
MRejoin(n) ==
    /\ mpc = "done"
    /\ joins < MaxJoins
    /\ \A k \in MKeys : workers[k] # "running"
    /\ Enter(n)

Mode == receive_mode(Cardinality(handles), wait(next_try), target_len)

\* lines 108, 110-115, 124-126: receive_from_child returns to run, or sleeps
MRecvReturn ==
    /\ mpc = "recv"
    /\ \/ target_len = 0 /\ mpc' = "probe"
       \/ target_len > 0 /\ Mode = "sleep" /\ mpc' = "sleep"
       \/ target_len > 0 /\ Mode = "return" /\ mpc' = "probe"
       \/ target_len > 0 /\ Mode = "try_recv" /\ chan = << >> /\ mpc' = "probe"
    /\ UNCHANGED <<target_len, handles, chan, rx, next_try, saved, mnew,
                   mjoining, workers, joins, mon, zeroed, announced, scen>>
    /\ UNCHANGED <<ixvars, prvars, svars, lvars>>

\* line 113: task::sleep(dur) ends once next_try has come
MWake ==
    /\ mpc = "sleep"
    /\ next_try <= 0
    /\ mpc' = "probe"
    /\ UNCHANGED <<target_len, handles, chan, rx, next_try, saved, mnew,
                   mjoining, workers, joins, mon, zeroed, announced, scen>>
    /\ UNCHANGED <<ixvars, prvars, svars, lvars>>

\* lines 116-141: a message is received and the callback decides the target
MRecvEvent(ret) ==
    /\ mpc = "recv"
    /\ target_len > 0
    /\ Mode \in {"recv", "try_recv"}
    /\ chan # << >>
    /\ LET i == recv_index(chan)
           m == chan[i]
       IN  IF m.kind = "Event" /\ m.key \notin handles
           THEN \* line 133: unwrap of None
                /\ mpc' = "panic"
                /\ rx' = FALSE
                /\ chan' = << >>
                /\ handles' = {}
                /\ workers' = gc(workers, {})
                /\ NoDeliver
                /\ UNCHANGED <<target_len, scen, mon>>
           ELSE /\ chan' = RemoveAt(chan, i)
                /\ handles' = IF m.kind = "Disconnected"
                              THEN handles \ {m.key} ELSE handles
                /\ workers' = gc(workers, handles')
                /\ target_len' = ret
                /\ Deliver(m.kind, m.key, ret)
                /\ mon' = [mon EXCEPT
                      !.disorder = @ \/ overtakes(chan, i),
                      !.short = @ \/ (/\ scen.on /\ m.kind = "Event"
                                      /\ ~(scen.nconn = scen.T0 /\ scen.reached))]
                /\ scen' = scen_cb(scen, m.kind, ret)
                /\ UNCHANGED <<mpc, rx>>
    /\ UNCHANGED <<next_try, saved, mnew, mjoining, joins>>
    /\ UNCHANGED <<ixvars, prvars, svars, lvars>>

\* line 67: D::open_some(self.target_len - self.handles.len()); the difference
\* of two usize panics when negative in a build with overflow checks and wraps
\* to a huge quota in one without
MProbe ==
    /\ mpc = "probe"
    /\ LET q == target_len - Cardinality(handles)
       IN  \/ /\ q < 0
              /\ mpc' = "panic"
              /\ rx' = FALSE
              /\ chan' = << >>
              /\ handles' = {}
              /\ workers' = gc(workers, {})
              /\ UNCHANGED <<mnew, scen, mon>>
           \/ \E opened \in open_some(IF q < 0 THEN MaxMKey ELSE q) :
              /\ mnew' = opened
              /\ mpc' = IF opened = << >> THEN "failed" ELSE "connect"
              /\ scen' = IF scen.on /\ ~scen.probed
                         THEN (IF Len(opened) = scen.T0
                               THEN [scen EXCEPT !.probed = TRUE] ELSE ScenOff)
                         ELSE scen
              /\ mon' = [mon EXCEPT !.early = @ \/ (target_len > 0 /\ next_try > 0)]
              /\ UNCHANGED <<rx, chan, handles, workers>>
    /\ NoDeliver
    /\ UNCHANGED <<target_len, next_try, saved, mjoining, joins>>
    /\ UNCHANGED <<ixvars, prvars, svars, lvars>>

\* lines 68-74: ConnectFailed; the callback may move next_try
MConnectFailed(ret, nt) ==
    /\ mpc = "failed"
    /\ target_len' = ret
    /\ next_try' = nt
    /\ Deliver("ConnectFailed", 0, ret)
    /\ scen' = scen_cb(scen, "ConnectFailed", ret)
    /\ mpc' = run_loop(ret)
    /\ UNCHANGED <<handles, chan, rx, saved, mnew, mjoining, workers, joins, mon>>
    /\ UNCHANGED <<ixvars, prvars, svars, lvars>>

\* line 79: Connected is delivered for a driver only while the target is positive
connect_skips(t) == FALSE
connect_calls(t) == t > 0

\* lines 78-88: one driver of the probe's result; after the last one the outer
\* loop goes on
MConnect(ret) ==
    /\ mpc = "connect"
    /\ mnew # << >>
    /\ LET k == Head(mnew)
           calls == connect_calls(target_len)
           t1 == IF calls THEN ret ELSE target_len
           sc == IF calls THEN scen_cb(scen, "Connected", ret) ELSE scen
       IN  /\ calls \/ ret = 0
           /\ target_len' = t1
           /\ IF calls THEN Deliver("Connected", k, ret) ELSE NoDeliver
           /\ IF t1 > 0
              THEN /\ handles' = handles \cup {k}
                   /\ workers' = [workers EXCEPT ![k] = "running"]
                   /\ saved' = saved
              ELSE /\ saved' = Append(saved, k)
                   /\ UNCHANGED <<handles, workers>>
           /\ scen' = IF sc.on /\ Cardinality(handles') = sc.T0
                      THEN [sc EXCEPT !.reached = TRUE] ELSE sc
           /\ mpc' = IF Tail(mnew) = << >> THEN run_loop(t1) ELSE "connect"
    /\ mnew' = Tail(mnew)
    /\ UNCHANGED <<chan, rx, next_try, mjoining, joins, mon>>
    /\ UNCHANGED <<ixvars, prvars, svars, lvars>>

\* line 93: std::mem::drop(self.receiver)
MShutdown ==
    /\ mpc = "shutdown"
    /\ rx' = FALSE
    /\ chan' = << >>
    /\ mpc' = "joinall"
    /\ UNCHANGED <<target_len, handles, next_try, saved, mnew, mjoining,
                   workers, joins, mon, zeroed, announced, scen>>
    /\ UNCHANGED <<ixvars, prvars, svars, lvars>>

\* lines 96-98: the next entry of handles, in the map's order
MPick(k) ==
    /\ mpc = "joinall"
    /\ mjoining = 0
    /\ k \in handles
    /\ mjoining' = k
    /\ UNCHANGED <<mpc, target_len, handles, chan, rx, next_try, saved,
                   mnew, workers, joins, mon, zeroed, announced, scen>>
    /\ UNCHANGED <<ixvars, prvars, svars, lvars>>

\* line 99: handle.join().ok().flatten()
join_value(st, k) == IF st = "some" THEN <<k>> ELSE << >>

\* lines 94-101: the thread has ended; its driver, if it kept one, is saved
MJoinHandle ==
    /\ mpc = "joinall"
    /\ mjoining # 0
    /\ workers[mjoining] \in {"some", "none"}
    /\ saved' = saved \o join_value(workers[mjoining], mjoining)
    /\ handles' = handles \ {mjoining}
    /\ workers' = [workers EXCEPT ![mjoining] = "free"]
    /\ mjoining' = 0
    /\ UNCHANGED <<mpc, target_len, chan, rx, next_try, mnew, joins, mon,
                   zeroed, announced, scen>>
    /\ UNCHANGED <<ixvars, prvars, svars, lvars>>

\* line 102: run returns, and join with it
MDone ==
    /\ mpc = "joinall"
    /\ mjoining = 0
    /\ handles = {}
    /\ mpc' = "done"
    /\ UNCHANGED <<target_len, handles, chan, rx, next_try, saved, mnew,
                   mjoining, workers, joins, mon, zeroed, announced, scen>>
    /\ UNCHANGED <<ixvars, prvars, svars, lvars>>

\* lines 168-174: the driver hands an event to the worker's inspector; the send
\* fails once the receiver is gone, the inspector returns false, the driver's
\* join returns true and the thread ends with Some((k, d))
WEvent(k) ==
    /\ workers[k] = "running"
    /\ mpc # "panic"
    /\ IF rx
       THEN /\ Len(chan) < MaxChan
            /\ chan' = Append(chan, [kind |-> "Event", key |-> k])
            /\ UNCHANGED workers
       ELSE /\ workers' = gc([workers EXCEPT ![k] = "some"], handles)
            /\ chan' = chan
    /\ UNCHANGED <<mpc, target_len, handles, rx, next_try, saved, mnew,
                   mjoining, joins, mon, zeroed, announced, scen>>
    /\ UNCHANGED <<ixvars, prvars, svars, lvars>>

\* lines 175-178: the driver's join returned false; Disconnected is sent (the
\* result of the send is ignored) and the thread ends with None
WBreak(k) ==
    /\ workers[k] = "running"
    /\ mpc # "panic"
    /\ rx => Len(chan) < MaxChan
    /\ chan' = IF rx THEN Append(chan, [kind |-> "Disconnected", key |-> k])
               ELSE chan
    /\ workers' = gc([workers EXCEPT ![k] = "none"], handles)
    /\ UNCHANGED <<mpc, target_len, handles, rx, next_try, saved, mnew,
                   mjoining, joins, mon, zeroed, announced, scen>>
    /\ UNCHANGED <<ixvars, prvars, svars, lvars>>

\* lines 168-174: the driver's join returned true although the inspector never
\* asked it to stop; the thread ends with Some((k, d)) and sends nothing
WQuit(k) ==
    /\ workers[k] = "running"
    /\ rx
    /\ workers' = gc([workers EXCEPT ![k] = "some"], handles)
    /\ UNCHANGED <<mpc, target_len, handles, chan, rx, next_try, saved,
                   mnew, mjoining, joins, mon, zeroed, announced, scen>>
    /\ UNCHANGED <<ixvars, prvars, svars, lvars>>

\* time passes
Tick ==
    /\ mpc \notin {"idle", "done", "panic"}
    /\ next_try >= 0
    /\ next_try' = next_try - 1
    /\ UNCHANGED <<mpc, target_len, handles, chan, rx, saved, mnew,
                   mjoining, workers, joins, mon, zeroed, announced, scen>>
    /\ UNCHANGED <<ixvars, prvars, svars, lvars>>

NextMulti ==
    \/ \E n \in 1 .. MaxT : MJoin(n)
    \/ MRecvReturn
    \/ MWake
    \/ \E ret \in 0 .. MaxT : MRecvEvent(ret)
    \/ MProbe
    \/ \E ret \in 0 .. MaxT, nt \in -1 .. 1 : MConnectFailed(ret, nt)
    \/ \E ret \in 0 .. MaxT : MConnect(ret)
    \/ MShutdown
    \/ \E k \in MKeys : MPick(k)
    \/ MJoinHandle
    \/ MDone
    \/ \E k \in MKeys : WEvent(k)
    \/ \E k \in MKeys : WBreak(k)
    \/ \E k \in MKeys : WQuit(k)
    \/ Tick

InitMulti == IndexerIdle /\ ProbeIdle /\ MultiIdle /\ SingleIdle /\ LibIdle

SpecMulti == InitMulti /\ [][NextMulti]_vars

NextRejoin == NextMulti \/ \E n \in 1 .. MaxT : MRejoin(n)

SpecRejoin == InitMulti /\ [][NextRejoin]_vars


\* steps of the dispatcher that the claims speak about
ProbeStarts == mpc = "probe" /\ mpc' \in {"failed", "connect"}
Received == mpc = "recv" /\ mpc' = "recv" /\ Len(chan') < Len(chan)
CallbackRuns ==
    \/ Received
    \/ mpc = "failed" /\ mpc' # "failed"
    \/ mpc = "connect" /\ mnew' # mnew /\ connect_calls(target_len)
InLoop == mpc \in {"recv", "sleep", "probe", "failed", "connect"}

\* C13: once the callback has returned 0 during a join, the callback is not
\* invoked again and no open-probe is started, whatever the number of handles.
C13_StopsAfterZero == [][zeroed => ~CallbackRuns /\ ~ProbeStarts]_vars

\* C14: when join has returned, every worker thread has ended and every driver
\* that was live when the loop was left and ended on request is in the
\* saved-context list, exactly once.
C14_ShutdownRecovers ==
    mpc = "done" =>
        /\ \A k \in MKeys : workers[k] = "free"
        /\ \A i, j \in 1 .. Len(saved) : i # j => saved[i] # saved[j]

\* C15: whenever Disconnected(k) is delivered, a Connected(k) was delivered
\* before it with no other Disconnected(k) in between, also for drivers taken
\* from the saved-context list and drivers saved without being announced.
C15_DisconnectedAfterConnected ==
    [][(Received /\ chan[recv_index(chan)].kind = "Disconnected")
          => announced[chan[recv_index(chan)].key]]_vars

\* C16: while the dispatcher loop runs, k is in handles exactly when the worker
\* of k is still running or has sent a Disconnected(k) that was not processed.
C16_HandlesIffLive ==
    InLoop =>
        \A k \in MKeys :
            k \in handles <=>
                \/ workers[k] = "running"
                \/ \E i \in 1 .. Len(chan) :
                      chan[i] = [kind |-> "Disconnected", key |-> k]

\* C17: starting with an empty saved-context, a target T > 0, a callback that
\* always returns T and a first probe that returns T healthy drivers, the first
\* Event is delivered only after exactly T Connected, and after handles
\* reached size T.
C17_ConnectedBeforeEvents == ~mon.short

C17_Witness ==
    /\ scen.on /\ scen.probed /\ scen.T0 = MaxT
    /\ scen.nconn = MaxT /\ scen.reached
    /\ Cardinality(handles) = MaxT
    /\ mpc = "recv" /\ chan # << >> /\ chan[1].kind = "Event"

C19_NoProbeBeforeNextTry == ~mon.early

C19_Witness ==
    /\ mpc = "connect" /\ target_len > 0 /\ handles # {}
    /\ next_try = -1 /\ ~mon.early


\* ---------------------------------------------------------------------------
\* Part 4: SupervisorForSingle (src/src/supervisor_single.rs)
\* ---------------------------------------------------------------------------

\* the history keeps the last MaxHist happenings
remember(h, e) ==
    IF Len(h) < MaxHist THEN Append(h, e) ELSE Append(Tail(h), e)

callback(kind, ret) == [kind |-> kind, ret |-> ret, quota |-> 0]
probe(q) == [kind |-> "probe", ret |-> TRUE, quota |-> q]

\* lines 19-33: SupervisorForSingle::default() or ::from(d)
SingleInit ==
    /\ spc = "idle"
    /\ sctx \in {None} \cup {Some(k) : k \in MKeys}
    /\ sdrv = None
    /\ shist = << >>

\* join is called (again)
SJoin ==
    /\ spc \in {"idle", "done"}
    /\ spc' = "top"
    /\ UNCHANGED <<sctx, sdrv, shist>>
    /\ UNCHANGED <<ixvars, prvars, mvars, lvars>>

\* lines 38-40: SupervisorForSingle::take, called while join is not running
STake ==
    /\ spc \in {"idle", "done"}
    /\ is_some(sctx)
    /\ sctx' = None
    /\ UNCHANGED <<spc, sdrv, shist>>
    /\ UNCHANGED <<ixvars, prvars, mvars, lvars>>

\* line 50: if let Some(mut driver) = self.0.take()
STop ==
    /\ spc = "top"
    /\ sdrv' = sctx
    /\ sctx' = None
    /\ spc' = IF is_some(sctx) THEN "joining" ELSE "probe"
    /\ UNCHANGED shist
    /\ UNCHANGED <<ixvars, prvars, mvars, lvars>>

\* line 53: self.0 = Some(driver)
save_back_drops(d) == None
save_back(d) == d

\* line 52: the driver hands an event to the inspector |d, e| f(Event(d, e));
\* when f returns false the driver's join returns true: lines 53-54
SEvent(ret) ==
    /\ spc = "joining"
    /\ shist' = remember(shist, callback("Event", ret))
    /\ IF ret
       THEN UNCHANGED <<spc, sctx, sdrv>>
       ELSE /\ sctx' = save_back(sdrv)
            /\ sdrv' = None
            /\ spc' = "done"
    /\ UNCHANGED <<ixvars, prvars, mvars, lvars>>

\* lines 52-54: the driver's join returns true on its own
SQuit ==
    /\ spc = "joining"
    /\ sctx' = save_back(sdrv)
    /\ sdrv' = None
    /\ spc' = "done"
    /\ UNCHANGED shist
    /\ UNCHANGED <<ixvars, prvars, mvars, lvars>>

\* lines 52, 57: the driver's join returns false
SBreak ==
    /\ spc = "joining"
    /\ spc' = "broken"
    /\ UNCHANGED <<sctx, sdrv, shist>>
    /\ UNCHANGED <<ixvars, prvars, mvars, lvars>>

\* lines 57-62: where join goes after f(Disconnected) returned `ret`
after_disconnected_rejoins(ret) == IF ret THEN "joining" ELSE "done"
after_disconnected(ret) == IF ret THEN "probe" ELSE "done"

\* lines 57-60: f(Disconnected); the broken driver is dropped
SDisconnected(ret) ==
    /\ spc = "broken"
    /\ shist' = remember(shist, callback("Disconnected", ret))
    /\ spc' = after_disconnected(ret)
    /\ sdrv' = IF spc' = "joining" THEN sdrv ELSE None
    /\ UNCHANGED sctx
    /\ UNCHANGED <<ixvars, prvars, mvars, lvars>>

\* lines 62-65: D::open_some(1).into_iter().next(); a driver is saved at once
SProbe ==
    /\ spc = "probe"
    /\ \E opened \in open_some(1) :
          IF opened = << >>
          THEN spc' = "failed" /\ sctx' = None
          ELSE spc' = "opened" /\ sctx' = Some(Head(opened))
    /\ shist' = remember(shist, probe(1))
    /\ UNCHANGED sdrv
    /\ UNCHANGED <<ixvars, prvars, mvars, lvars>>

\* lines 66-68: f(Connected(t, ..))
SConnected(ret) ==
    /\ spc = "opened"
    /\ shist' = remember(shist, callback("Connected", ret))
    /\ spc' = IF ret THEN "top" ELSE "done"
    /\ UNCHANGED <<sctx, sdrv>>
    /\ UNCHANGED <<ixvars, prvars, mvars, lvars>>

\* lines 71-75: f(ConnectFailed)
SConnectFailed(ret) ==
    /\ spc = "failed"
    /\ shist' = remember(shist, callback("ConnectFailed", ret))
    /\ spc' = IF ret THEN "top" ELSE "done"
    /\ UNCHANGED <<sctx, sdrv>>
    /\ UNCHANGED <<ixvars, prvars, mvars, lvars>>

NextSingle ==
    \/ SJoin
    \/ STake
    \/ STop
    \/ \E ret \in BOOLEAN : SEvent(ret)
    \/ SQuit
    \/ SBreak
    \/ \E ret \in BOOLEAN : SDisconnected(ret)
    \/ SProbe
    \/ \E ret \in BOOLEAN : SConnected(ret)
    \/ \E ret \in BOOLEAN : SConnectFailed(ret)

InitSingle == IndexerIdle /\ ProbeIdle /\ MultiIdle /\ SingleInit /\ LibIdle

SpecSingle == InitSingle /\ [][NextSingle]_vars

\* C20: after the callback returned true to Disconnected, the next thing the
\* supervisor does is an open-probe with quota 1, and the next callback is
\* Connected or ConnectFailed, never Event or a second Disconnected.
C20_ProbeAfterDisconnected ==
    \A i \in 1 .. Len(shist) :
        shist[i] = callback("Disconnected", TRUE) =>
            /\ i + 1 <= Len(shist) => shist[i + 1] = probe(1)
            /\ i + 2 <= Len(shist) =>
                  shist[i + 2].kind \in {"Connected", "ConnectFailed"}
            /\ i = Len(shist) => spc = "probe"

C20_Witness ==
    /\ Len(shist) = 3
    /\ shist[1] = callback("Disconnected", TRUE)
    /\ shist[2] = probe(1)
    /\ shist[3].kind = "Connected"


Last(h) == h[Len(h)]

\* C21: when the driver's join ends on request (the callback returned false
\* to an Event, or the driver stopped by itself) join returns with that driver
\* back in the context and delivers no Disconnected; when join returns because
\* the callback returned false to Disconnected or ConnectFailed the context is
\* empty; the driver is never both in the context and in use by the join loop.
C21_SavedBackOrEmpty ==
    [][/\ (spc = "joining" /\ spc' = "done") =>
             /\ is_some(sdrv) /\ sctx' = sdrv
             /\ shist' = shist \/ Last(shist') = callback("Event", FALSE)
       /\ (spc \in {"broken", "failed"} /\ spc' = "done") => sctx' = None
       /\ ~(is_some(sctx') /\ is_some(sdrv'))]_vars

C21_Witness ==
    /\ spc = "done" /\ is_some(sctx)
    /\ shist # << >> /\ Last(shist) = callback("Event", FALSE)
    /\ Len(shist) >= 2 /\ shist[Len(shist) - 1] = callback("Connected", TRUE)


\* C22: the dispatcher is about to call open_some only when handles.len() is
\* below the target, so that the quota target_len - handles.len() does not
\* underflow and is at least 1, also after a callback set the target to 0.
C22_QuotaPositive ==
    mpc = "probe" => target_len - Cardinality(handles) >= 1


\* -------------------------------------------------- Indexer, modified flags

\* C23: after an add or a remove, every slot that is occupied afterwards and
\* holds another occupant than before the call has its modified flag set,
\* except the slot whose index the call returned; the tail slot that a
\* refilling remove (which returns None) fills from the waiting pile included
C23_ChangedSlotsFlagged ==
    [][((Called("add") \/ Called("remove")) /\ state' = "none") =>
          \A i \in Slots :
              (is_some(pinned'[i]) /\ pinned'[i] # pinned[i] /\ call'.ret # Some(i))
                  => FlagAfter(i)]_vars

\* C24: in every reachable state the modified flag of an empty slot is
\* clear: flags are set on occupied slots only, and a remove that empties a
\* slot (nothing waiting) clears the flag of that slot
C24_EmptySlotsUnflagged ==
    state = "none" => \A i \in Slots : ~is_some(pinned[i]) => ~Flag(i)

\* C25: with capacity >= 2 and no key added while still present, no call
\* panics or leaves the slots: an add that sees is_full() finds the tail
\* occupied, and an add that sees not full finds an empty slot before its
\* downward scan passes index 0
C25_NoPanicNoOutOfBounds ==
    state \in {"unborn", "none"}

\* ------------------------------------------ multi supervisor, handle lookup

\* C26: every Event(k, ...) the dispatcher takes from the event channel has k
\* in handles at that moment, so the lookup of the command sender never
\* fails, whatever the interleaving of the workers and the probe
C26_EventKeyInHandles ==
    [][(/\ mpc = "recv" /\ chan # << >> /\ Len(chan') < Len(chan)
        /\ chan[recv_index(chan)].kind = "Event")
          => chan[recv_index(chan)].key \in handles]_vars

\* ===================================================================
\* Part 5: SupervisorForMultiple::join with the running flag
\* (src/src/lib.rs, lines 198-261) and its workers (spawn, lines 281-302).
\* The event channel is std::sync::mpsc::sync_channel(2 * len): a send blocks
\* while the channel holds 2 * len messages.  The Receiver and the
\* dispatcher's own SyncSender live until join returns (they are locals
\* dropped after line 260), so `for event in &receiver` ends only by break
\* and a blocked send is released only by a receive.  len >= 1 here.

Capacity == 2 * llen

\* D::open_all(Self::keys(), quota, Self::open_timeout()) as Part 2 leaves it:
\* every candidate whose driver can be constructed (its device is held by no
\* other driver object) and runs healthy to the end of the probe is returned,
\* whatever the quota (C11); in the order of keys()
LHeldKeys ==
    {k \in MKeys : lworkers[k] \in {"running", "send", "sent", "breaking", "some"}}
        \cup lcontext \cup Range(lnew)

open_all(quota) ==
    {opened \in UNION {[1 .. n -> MKeys \ LHeldKeys] : n \in 0 .. MaxMKey} :
        \A i, j \in 1 .. Len(opened) : i < j => opened[i] < opened[j]}

\* lines 213, 215, 235: where the dispatcher goes once the for loop over `new`
\* or a ConnectFailed is behind it
while_loop(l, n) ==
    IF n < llen THEN "open" ELSE IF l THEN "recv" ELSE "stop"

\* lines 204-212: the channel, the flag, and a worker for every saved driver
LJoin(n) ==
    /\ lpc = "idle"
    /\ llen' = n
    /\ lchan' = << >>
    /\ running' = TRUE
    /\ lcontext' = {}
    /\ lhandles' = lcontext
    /\ lworkers' = [k \in MKeys |-> IF k \in lcontext THEN "running" ELSE lworkers[k]]
    /\ _loop' = TRUE
    /\ lpc' = IF Cardinality(lcontext) < n THEN "open" ELSE "recv"
    /\ UNCHANGED <<lnew, ljoining>>
    /\ UNCHANGED <<ixvars, prvars, mvars, svars>>

\* lines 215-217: handles.len() < len, the probe
LOpen ==
    /\ lpc = "open"
    /\ \E opened \in open_all(llen - Cardinality(lhandles)) :
          /\ lnew' = opened
          /\ lpc' = IF opened = << >> THEN "failed" ELSE "connect"
    /\ UNCHANGED <<llen, _loop, running, lhandles, lchan, lcontext, lworkers, ljoining>>
    /\ UNCHANGED <<ixvars, prvars, mvars, svars>>

\* lines 218-225: f(ConnectFailed {..}); false leaves both loops
LConnectFailed(ret) ==
    /\ lpc = "failed"
    /\ _loop' = (_loop /\ ret)
    /\ lpc' = IF ret THEN while_loop(_loop, Cardinality(lhandles)) ELSE "stop"
    /\ UNCHANGED <<llen, running, lhandles, lchan, lcontext, lnew, lworkers, ljoining>>
    /\ UNCHANGED <<ixvars, prvars, mvars, svars>>

\* lines 227-232: one turn of `for (t, d) in new`: f(Connected) is called while
\* _loop holds, and the driver is spawned and inserted in any case
LConnect(ret) ==
    /\ lpc = "connect"
    /\ lnew # << >>
    /\ ret \in (IF _loop THEN BOOLEAN ELSE {TRUE})    \* f is called while _loop
    /\ LET k == Head(lnew)
           l == _loop /\ ret
           h == lhandles \cup {k}
       IN  /\ _loop' = l
           /\ lhandles' = h
           /\ lworkers' = [lworkers EXCEPT ![k] = "running"]
           /\ lnew' = Tail(lnew)
           /\ lpc' = IF Tail(lnew) = << >>
                     THEN while_loop(l, Cardinality(h)) ELSE "connect"
    /\ UNCHANGED <<llen, running, lchan, lcontext, ljoining>>
    /\ UNCHANGED <<ixvars, prvars, mvars, svars>>

\* lines 236-252: `for event in &receiver` takes the oldest message and calls
\* f; false breaks with _loop = false
LRecv(ret) ==
    /\ lpc = "recv"
    /\ lchan # << >>
    /\ LET m == Head(lchan)
           h == IF m.kind = "Disconnected" THEN lhandles \ {m.key} ELSE lhandles
       IN  /\ lchan' = Tail(lchan)
           /\ lhandles' = h
           /\ lworkers' = [k \in MKeys |->
                  IF lworkers[k] \in {"some", "none"} /\ k \notin h
                  THEN "free" ELSE lworkers[k]]
    /\ _loop' = ret
    /\ lpc' = IF ret THEN "recv" ELSE "stop"
    /\ UNCHANGED <<llen, running, lcontext, lnew, ljoining>>
    /\ UNCHANGED <<ixvars, prvars, mvars, svars>>

\* line 255: running.store(false)
LStop ==
    /\ lpc = "stop"
    /\ running' = FALSE
    /\ lpc' = "joinall"
    /\ UNCHANGED <<llen, _loop, lhandles, lchan, lcontext, lnew, lworkers, ljoining>>
    /\ UNCHANGED <<ixvars, prvars, mvars, svars>>

\* lines 257-259: handles.into_iter() reaches an entry, in the HashMap's order
LPick(k) ==
    /\ lpc = "joinall"
    /\ k \in lhandles
    /\ ljoining' = k
    /\ lpc' = "joining"
    /\ UNCHANGED <<llen, _loop, running, lhandles, lchan, lcontext, lnew, lworkers>>
    /\ UNCHANGED <<ixvars, prvars, mvars, svars>>

\* line 259: handle.join() returns once the thread has ended; Some((t, d))
\* goes into the context (line 256)
LJoinHandle ==
    /\ lpc = "joining"
    /\ lworkers[ljoining] \in {"some", "none"}
    /\ lcontext' = IF lworkers[ljoining] = "some"
                   THEN lcontext \cup {ljoining} ELSE lcontext
    /\ lworkers' = [lworkers EXCEPT ![ljoining] = "free"]
    /\ lhandles' = lhandles \ {ljoining}
    /\ ljoining' = 0
    /\ lpc' = "joinall"
    /\ UNCHANGED <<llen, _loop, running, lchan, lnew>>
    /\ UNCHANGED <<ixvars, prvars, mvars, svars>>

\* lines 260-261: every handle is joined; join returns and drops the Receiver
LDone ==
    /\ lpc = "joinall"
    /\ lhandles = {}
    /\ lpc' = "done"
    /\ lchan' = << >>
    /\ UNCHANGED <<llen, _loop, running, lhandles, lcontext, lnew, lworkers, ljoining>>
    /\ UNCHANGED <<ixvars, prvars, mvars, svars>>

\* SyncSender::send: it returns at once with an error when the Receiver is
\* gone, else it returns once the channel has room for the message
can_send == lpc = "done" \/ Len(lchan) < Capacity

sent(kind, k) ==
    IF lpc = "done" THEN lchan ELSE Append(lchan, [kind |-> kind, key |-> k])

\* the value a thread ends with stays in its JoinHandle; without a handle
\* (the entry was removed or replaced) it is dropped
ended(k, v) == IF k \in lhandles THEN v ELSE "free"

\* line 292: the driver calls the inspector with an event or a tick
WLEvent(k) ==
    /\ lworkers[k] = "running"
    /\ lworkers' = [lworkers EXCEPT ![k] = "send"]
    /\ UNCHANGED <<lpc, llen, _loop, running, lhandles, lchan, lcontext, lnew, ljoining>>
    /\ UNCHANGED <<ixvars, prvars, mvars, svars>>

\* line 293: sender.send(OutEvent::Event(t, event))
WLSend(k) ==
    /\ lworkers[k] = "send"
    /\ can_send
    /\ lchan' = sent("Event", k)
    /\ lworkers' = [lworkers EXCEPT ![k] = "sent"]
    /\ UNCHANGED <<lpc, llen, _loop, running, lhandles, lcontext, lnew, ljoining>>
    /\ UNCHANGED <<ixvars, prvars, mvars, svars>>

\* lines 294-296: running.load(); on false the driver's join ends
\* cooperatively and the thread ends with Some((t, d))
WLLoad(k) ==
    /\ lworkers[k] = "sent"
    /\ lworkers' = [lworkers EXCEPT ![k] = IF running THEN "running"
                                           ELSE ended(k, "some")]
    /\ UNCHANGED <<lpc, llen, _loop, running, lhandles, lchan, lcontext, lnew, ljoining>>
    /\ UNCHANGED <<ixvars, prvars, mvars, svars>>

\* lines 292, 297: the driver breaks, d.join returns false
WLBreak(k) ==
    /\ lworkers[k] = "running"
    /\ lworkers' = [lworkers EXCEPT ![k] = "breaking"]
    /\ UNCHANGED <<lpc, llen, _loop, running, lhandles, lchan, lcontext, lnew, ljoining>>
    /\ UNCHANGED <<ixvars, prvars, mvars, svars>>

\* lines 298-299: sender.send(OutEvent::Disconnected(t)), then None
WLDisconnect(k) ==
    /\ lworkers[k] = "breaking"
    /\ can_send
    /\ lchan' = sent("Disconnected", k)
    /\ lworkers' = [lworkers EXCEPT ![k] = ended(k, "none")]
    /\ UNCHANGED <<lpc, llen, _loop, running, lhandles, lcontext, lnew, ljoining>>
    /\ UNCHANGED <<ixvars, prvars, mvars, svars>>

NextLib ==
    \/ \E n \in 1 .. MaxJoinLen : LJoin(n)
    \/ LOpen
    \/ \E ret \in BOOLEAN : LConnectFailed(ret)
    \/ \E ret \in BOOLEAN : LConnect(ret)
    \/ \E ret \in BOOLEAN : LRecv(ret)
    \/ LStop
    \/ \E k \in MKeys : LPick(k)
    \/ LJoinHandle
    \/ LDone
    \/ \E k \in MKeys : WLEvent(k)
    \/ \E k \in MKeys : WLSend(k)
    \/ \E k \in MKeys : WLLoad(k)
    \/ \E k \in MKeys : WLBreak(k)
    \/ \E k \in MKeys : WLDisconnect(k)

InitLib == IndexerIdle /\ ProbeIdle /\ MultiIdle /\ SingleIdle /\ LibIdle

SpecLib == InitLib /\ [][NextLib]_vars

\* C27: after the callback returned false, join does not deadlock: while the
\* dispatcher joins the worker handles (the Receiver still alive, nothing
\* received any more) no worker it has to join is held in a send on the full
\* channel, so every worker observes running == false and ends
C27_JoinNeverBlocked ==
    lpc \in {"joinall", "joining"} =>
        \A k \in lhandles :
            ~(lworkers[k] \in {"send", "breaking"} /\ Len(lchan) = Capacity)

====
